---- MODULE Spec2Model ----
(***************************************************************************)
(* A model of SimUGANSpeech/scripts/librispeech_initialize.py: the walk    *)
(* over a LibriSpeech folder, the parsing of *.trans.txt files, the flat   *)
(* index built from them, the download/extract stage, the master.pkl       *)
(* files and the --clean branch.                                           *)
(*                                                                         *)
(* Strings are TLA+ strings; Python's str and os.path operations are       *)
(* modelled character by character on them.                                *)
(***************************************************************************)
EXTENDS Integers, Sequences, FiniteSets, TLC

VARIABLES
    txt_file,        \* SpecParse: the trans.txt file handed to _transcriptions_and_flac
    parsed,          \* SpecParse: what _transcriptions_and_flac returned, or NotRun
    folder,          \* SpecBuild: the files and directories under folder_path
    voice_txt_dict,  \* SpecBuild: what _voice_txt_dict_from_path returned or raised
                     \* inside flacpath_transcription_id
    index,           \* SpecBuild: what flacpath_transcription_id returned or raised
    disk,            \* Spec: the files and directories at and under LIBRISPEECH_DIR
    last             \* Spec: the last call made, its arguments and its outcome

parseVars == <<txt_file, parsed>>
buildVars == <<folder, voice_txt_dict, index>>
diskVars == <<disk, last>>
vars == <<txt_file, parsed, folder, voice_txt_dict, index, disk, last>>

\* The value of a variable that the specification at hand does not use.
Unused == [state |-> "unused"]

\* The outcome of a call: not made yet, returned a value, or raised.
NotRun == [state |-> "not-run"]
Returned(v) == [state |-> "returned", value |-> v]
Raised(e) == [state |-> "raised", error |-> e]

(***************************************************************************)
(* Bounds of the model.                                                    *)
(***************************************************************************)
\* longest line of a transcript file in SpecParse
MaxLineLen == 5
\* most lines of a transcript file in SpecParse
MaxLines == 2
\* most leaf directories of a folder in SpecBuild
MaxLeaves == 3

(***************************************************************************)
(* Python str operations.                                                  *)
(***************************************************************************)
\* the i-th character of s, as a one-character string
CharAt(s, i) == SubSeq(s, i, i)

\* str.isspace of one character, for the characters the model uses
IsSpace(c) == c \in {" ", "\t", "\n", "\r"}

\* str.endswith
endswith(s, suffix) ==
    /\ Len(suffix) <= Len(s)
    /\ SubSeq(s, Len(s) - Len(suffix) + 1, Len(s)) = suffix

\* str.startswith
startswith(s, prefix) ==
    /\ Len(prefix) <= Len(s)
    /\ SubSeq(s, 1, Len(prefix)) = prefix

\* str.lstrip(): leading whitespace removed; i is the first character kept
RECURSIVE FirstKept(_, _)
FirstKept(s, i) ==
    IF i <= Len(s) /\ IsSpace(CharAt(s, i)) THEN FirstKept(s, i + 1) ELSE i

lstrip(s) == SubSeq(s, FirstKept(s, 1), Len(s))

\* str.rstrip(): trailing whitespace removed; i is the last character kept
RECURSIVE LastKept(_, _)
LastKept(s, i) ==
    IF i >= 1 /\ IsSpace(CharAt(s, i)) THEN LastKept(s, i - 1) ELSE i

rstrip(s) == SubSeq(s, 1, LastKept(s, Len(s)))

\* str.strip(): whitespace removed at both ends
strip(s) == rstrip(lstrip(s))

\* re.split(' ', s): s cut at every single space character, so never empty;
\* SplitFrom gives the pieces of s from position i on, the piece at hand
\* having started at position start
RECURSIVE SplitFrom(_, _, _)
SplitFrom(s, start, i) ==
    IF i > Len(s) THEN <<SubSeq(s, start, Len(s))>>
    ELSE IF CharAt(s, i) = " "
         THEN <<SubSeq(s, start, i - 1)>> \o SplitFrom(s, i + 1, i + 1)
         ELSE SplitFrom(s, start, i + 1)

re_split_space(s) == SplitFrom(s, 1, 1)

\* sep.join(parts)
RECURSIVE join(_, _)
join(sep, parts) ==
    IF Len(parts) = 0 THEN ""
    ELSE IF Len(parts) = 1 THEN parts[1]
    ELSE parts[1] \o sep \o join(sep, Tail(parts))

(***************************************************************************)
(* os.path operations (posixpath).                                         *)
(***************************************************************************)
\* p.rfind('/') + 1: the position of the last "/" of p at or before i, 0 when
\* there is none
RECURSIVE LastSlashFrom(_, _)
LastSlashFrom(p, i) ==
    IF i = 0 THEN 0
    ELSE IF CharAt(p, i) = "/" THEN i
    ELSE LastSlashFrom(p, i - 1)

LastSlash(p) == LastSlashFrom(p, Len(p))

\* os.path.basename
basename(p) == SubSeq(p, LastSlash(p) + 1, Len(p))

\* os.path.dirname: the head up to the last "/", its trailing slashes removed
\* unless it is all slashes
RECURSIVE LastNonSlash(_, _)
LastNonSlash(h, i) ==
    IF i >= 1 /\ CharAt(h, i) = "/" THEN LastNonSlash(h, i - 1) ELSE i

dirname(p) ==
    LET head == SubSeq(p, 1, LastSlash(p))
        k == LastNonSlash(head, Len(head))
    IN  IF k = 0 THEN head ELSE SubSeq(head, 1, k)

\* os.path.join of two components
path_join(a, b) ==
    IF startswith(b, "/") THEN b
    ELSE IF a = "" \/ endswith(a, "/") THEN a \o b
    ELSE a \o "/" \o b

(***************************************************************************)
(* _transcriptions_and_flac                                                *)
(***************************************************************************)
\* one pass of the loop over the stripped lines: the transcription and the
\* .flac path appended for one line
LineTranscription(line) == join(" ", Tail(re_split_space(line)))

LineFlac(parent_dir_path, line) ==
    path_join(parent_dir_path, re_split_space(line)[1] \o ".flac")

\* f is [path |-> the file's path, lines |-> what f.readlines() gives, each
\* line without its terminator]
_transcriptions_and_flac(f) ==
    LET parent_dir_path == dirname(f.path)
        lines == [i \in 1..Len(f.lines) |-> strip(f.lines[i])]
    IN  Returned(
          [transcriptions |-> [i \in 1..Len(lines) |-> LineTranscription(lines[i])],
           flac_files     |-> [i \in 1..Len(lines) |-> LineFlac(parent_dir_path, lines[i])]])

(***************************************************************************)
(* The file system under a folder: a sequence of nodes, a directory before *)
(* what it holds, in the order os.listdir and os.walk list them.  A node   *)
(* is [path, in, name, kind, content]: `in` is the directory that holds it *)
(* and `name` its name there (the dirname and the basename of its path),   *)
(* kind is "dir" or "file"; the content of a                               *)
(* text file is what readlines() gives, that of master.pkl the pickled     *)
(* data, that of an archive how much of it was written; <<>> otherwise.    *)
(***************************************************************************)
Node(dir, name, kind, c) ==
    [path |-> path_join(dir, name), in |-> dir, name |-> name, kind |-> kind,
     content |-> c]
DirNode(p) == Node(dirname(p), basename(p), "dir", <<>>)
FileNode(p, c) == Node(dirname(p), basename(p), "file", c)

\* the names of the nodes of one kind directly inside directory dir
Listing(nodes, dir, kind) ==
    LET Inside(n) == n.kind = kind /\ n.path # dir /\ n.in = dir
        inside == SelectSeq(nodes, Inside)
    IN  [i \in 1..Len(inside) |-> inside[i].name]

\* os.walk(top): one (dir_name, sub_directories, file_names) per directory at
\* or under top, top first, each directory before its subdirectories
os_walk(nodes, top) ==
    LET Under(n) == n.kind = "dir" /\ (n.path = top \/ startswith(n.path, top \o "/"))
        dirs == SelectSeq(nodes, Under)
    IN  [i \in 1..Len(dirs) |->
            [dir_name        |-> dirs[i].path,
             sub_directories |-> Listing(nodes, dirs[i].path, "dir"),
             file_names      |-> Listing(nodes, dirs[i].path, "file")]]

\* open(path).readlines()
readlines(nodes, path) ==
    LET n == CHOOSE m \in {nodes[i] : i \in 1..Len(nodes)} :
                 m.path = path /\ m.kind = "file"
    IN  n.content

\* os.path.exists
exists(nodes, path) == \E i \in 1..Len(nodes) : nodes[i].path = path

(***************************************************************************)
(* _voice_txt_dict_from_path.  A dict is the sequence of its (key, value)  *)
(* pairs in insertion order, which is the order Python iterates it in.     *)
(***************************************************************************)
HasKey(d, k) == \E i \in 1..Len(d) : d[i].key = k

\* voice_txt_dict[voice_id].append(txt_file)
DictAppendMutant(d, voice_id, txt_path) ==
    [i \in 1..Len(d) |->
        IF d[i].key = voice_id
        THEN [key |-> voice_id, value |-> <<txt_path>> \o d[i].value]
        ELSE d[i]]

DictAppend(d, voice_id, txt_path) ==
    [i \in 1..Len(d) |->
        IF d[i].key = voice_id
        THEN [key |-> voice_id, value |-> Append(d[i].value, txt_path)]
        ELSE d[i]]

\* the body of the loop for one leaf directory: the paths of its files, those
\* that end in 'txt', the first of them filed under the directory's basename
IsTxt(x) == endswith(x, "txt")

TxtFiles(entry) ==
    LET file_names == [i \in 1..Len(entry.file_names) |->
                          path_join(entry.dir_name, entry.file_names[i])]
    IN  SelectSeq(file_names, IsTxt)

RECURSIVE WalkLoop(_, _, _)
WalkLoop(entries, i, d) ==
    IF i > Len(entries) THEN Returned(d)
    ELSE IF Len(entries[i].sub_directories) # 0 THEN WalkLoop(entries, i + 1, d)
    ELSE IF TxtFiles(entries[i]) = <<>> THEN Raised("IndexError")
    ELSE LET txt == TxtFiles(entries[i])[1]
             voice_id == basename(entries[i].dir_name)
         IN  WalkLoop(entries, i + 1,
                      IF ~HasKey(d, voice_id)
                      THEN Append(d, [key |-> voice_id, value |-> <<txt>>])
                      ELSE DictAppend(d, voice_id, txt))

_voice_txt_dict_from_path(nodes, folder_path) ==
    WalkLoop(os_walk(nodes, folder_path), 1, <<>>)

(***************************************************************************)
(* flacpath_transcription_id                                               *)
(***************************************************************************)
EmptyIndex == [paths |-> <<>>, transcriptions |-> <<>>, ids |-> <<>>]

\* ids += [voice_id] * len(flacs)
ExtendIdsMutant(ids, voice_id, flacs) == Append(ids, voice_id)

ExtendIds(ids, voice_id, flacs) == ids \o [i \in 1..Len(flacs) |-> voice_id]

\* the inner loop: the txt files of one voice id, from the k-th on
RECURSIVE FilesLoop(_, _, _, _, _)
FilesLoop(nodes, voice_id, txt_files, k, acc) ==
    IF k > Len(txt_files) THEN Returned(acc)
    ELSE LET r == _transcriptions_and_flac(
                      [path |-> txt_files[k], lines |-> readlines(nodes, txt_files[k])])
         IN  IF r.state = "raised" THEN r
             ELSE FilesLoop(nodes, voice_id, txt_files, k + 1,
                    [paths          |-> acc.paths \o r.value.flac_files,
                     transcriptions |-> acc.transcriptions \o r.value.transcriptions,
                     ids            |-> ExtendIds(acc.ids, voice_id, r.value.flac_files)])

\* the outer loop: the voice ids of the dict, from the j-th on
RECURSIVE VoiceLoop(_, _, _, _)
VoiceLoop(nodes, d, j, acc) ==
    IF j > Len(d) THEN Returned(acc)
    ELSE LET r == FilesLoop(nodes, d[j].key, d[j].value, 1, acc)
         IN  IF r.state = "raised" THEN r
             ELSE VoiceLoop(nodes, d, j + 1, r.value)

\* the function's body after its first line, w being what
\* _voice_txt_dict_from_path returned or raised
IndexFrom(nodes, w) ==
    IF w.state = "raised" THEN w
    ELSE VoiceLoop(nodes, w.value, 1, EmptyIndex)

flacpath_transcription_id(nodes, folder_path) ==
    IndexFrom(nodes, _voice_txt_dict_from_path(nodes, folder_path))

(***************************************************************************)
(* SpecBuild: flacpath_transcription_id, and _voice_txt_dict_from_path     *)
(* inside it, applied to every folder within the bounds.                   *)
(***************************************************************************)
\* the sequences over S of length at most n
RECURSIVE SeqsUpTo(_, _)
SeqsUpTo(S, n) ==
    IF n = 0 THEN {<<>>}
    ELSE SeqsUpTo(S, n - 1)
         \cup {Append(q, x) : q \in SeqsUpTo(S, n - 1), x \in S}

\* data/LibriSpeech below ROOT_DIR
LIBRISPEECH_DIR == path_join("data", "LibriSpeech")

\* The directories that may be leaves, below the folder: reader/chapter, and
\* one reader directory without chapters.
LeafDirs == {"19/198", "19/227", "20/198", "21"}

\* What a leaf directory may hold: sequences of [name, lines].
LeafKinds ==
    { <<[name |-> "t.trans.txt", lines |-> <<"1 A B", "2 C">>],
        [name |-> "1.flac", lines |-> <<>>]>>,
      <<[name |-> "1.flac", lines |-> <<>>],
        [name |-> "s.trans.txt", lines |-> <<"3 D">>],
        [name |-> "t.trans.txt", lines |-> <<"4 E">>]>>,
      <<[name |-> "t.trans.txt", lines |-> <<>>]>>,
      <<[name |-> "1.flac", lines |-> <<>>]>>,
      <<[name |-> "notestxt", lines |-> <<"5 F">>],
        [name |-> "1.flac", lines |-> <<>>]>> }

\* What the folder itself holds beside its directories.
RootFiles ==
    <<[name |-> "master.pkl", lines |-> <<>>],
      [name |-> "README.txt", lines |-> <<"6 G">>]>>

FileNodes(dir, files) ==
    [i \in 1..Len(files) |-> Node(dir, files[i].name, "file", files[i].lines)]

\* the nodes of the leaves from the i-th on; a reader directory comes before
\* the first of its chapters
RECURSIVE LeafNodes(_, _, _)
LeafNodes(top, leaves, i) ==
    IF i > Len(leaves) THEN <<>>
    ELSE LET reader == dirname(leaves[i].dir)
             first == reader # "" /\ (i = 1 \/ dirname(leaves[i - 1].dir) # reader)
             dir == path_join(top, leaves[i].dir)
         IN  (IF first THEN <<Node(top, reader, "dir", <<>>)>> ELSE <<>>)
             \o <<DirNode(dir)>> \o FileNodes(dir, leaves[i].files)
             \o LeafNodes(top, leaves, i + 1)

FolderNodes(top, rootfiles, leaves) ==
    <<DirNode(top)>> \o FileNodes(top, rootfiles) \o LeafNodes(top, leaves, 1)

\* The leaf directories in an order os.walk can give: no directory twice, and
\* the chapters of one reader next to each other.
CanFollow(q, d) ==
    /\ \A i \in 1..Len(q) : q[i] # d
    /\ \A i \in 1..Len(q) :
          (dirname(d) # "" /\ dirname(q[i]) = dirname(d)) => dirname(q[Len(q)]) = dirname(d)

RECURSIVE DirSeqs(_)
DirSeqs(n) ==
    IF n = 0 THEN {<<>>}
    ELSE DirSeqs(n - 1)
         \cup {Append(q, d) : q \in {r \in DirSeqs(n - 1) : Len(r) = n - 1},
                              d \in LeafDirs}

WalkOrders ==
    {q \in DirSeqs(MaxLeaves) :
        \A i \in 1..Len(q) : CanFollow(SubSeq(q, 1, i - 1), q[i])}

\* the folder whose leaves are the directories ds, the i-th holding ks[i]
Folder(ds, ks) ==
    [path  |-> path_join(LIBRISPEECH_DIR, "dev-clean"),
     nodes |-> FolderNodes(path_join(LIBRISPEECH_DIR, "dev-clean"), RootFiles,
                           [i \in 1..Len(ds) |-> [dir |-> ds[i], files |-> ks[i]]])]

InitBuild ==
    /\ \E ds \in WalkOrders : \E ks \in [1..Len(ds) -> LeafKinds] :
          folder = Folder(ds, ks)
    /\ voice_txt_dict = NotRun
    /\ index = NotRun
    /\ txt_file = Unused /\ parsed = Unused
    /\ disk = Unused /\ last = Unused

\* One call of flacpath_transcription_id; voice_txt_dict is its local
\* variable of that name.
FlacpathTranscriptionId ==
    /\ index = NotRun
    /\ LET w == _voice_txt_dict_from_path(folder.nodes, folder.path)
       IN  /\ voice_txt_dict' = w
           /\ index' = IndexFrom(folder.nodes, w)
    /\ UNCHANGED <<folder, parseVars, diskVars>>

NextBuild == FlacpathTranscriptionId

SpecBuild == InitBuild /\ [][NextBuild]_vars

(***************************************************************************)
(* SpecParse: _transcriptions_and_flac applied to every transcript file    *)
(* within the bounds.                                                      *)
(***************************************************************************)
Alphabet == {"a", " ", "\t"}

RECURSIVE Strs(_)
Strs(n) ==
    IF n = 0 THEN {""}
    ELSE Strs(n - 1) \cup {s \o c : s \in Strs(n - 1), c \in Alphabet}

TxtPaths == {"dev-clean/1234/1234.trans.txt"}

InitParse ==
    /\ txt_file \in {[path |-> p, lines |-> ls] :
                        p \in TxtPaths, ls \in SeqsUpTo(Strs(MaxLineLen), MaxLines)}
    /\ parsed = NotRun
    /\ folder = Unused /\ voice_txt_dict = Unused /\ index = Unused
    /\ disk = Unused /\ last = Unused

TranscriptionsAndFlac ==
    /\ parsed = NotRun
    /\ parsed' = _transcriptions_and_flac(txt_file)
    /\ UNCHANGED <<txt_file, buildVars, diskVars>>

NextParse == TranscriptionsAndFlac

SpecParse == InitParse /\ [][NextParse]_vars

(***************************************************************************)
(* Files on the disk.                                                      *)
(***************************************************************************)
\* open(path, 'wb') and a write: the file is created, or its content replaced
WriteFile(nodes, path, c) ==
    IF exists(nodes, path)
    THEN LET i == CHOOSE k \in 1..Len(nodes) : nodes[k].path = path
         IN  [nodes EXCEPT ![i] = FileNode(path, c)]
    ELSE Append(nodes, FileNode(path, c))

\* os.remove
RemoveFile(nodes, path) == SelectSeq(nodes, LAMBDA n : n.path # path)

\* os.makedirs of a directory that does not exist
MakeDirs(nodes, path) == Append(nodes, DirNode(path))

\* os.listdir(dir): the names of what is directly inside dir
listdir(nodes, dir) ==
    LET inside == SelectSeq(nodes, LAMBDA n : n.path # dir /\ n.in = dir)
    IN  [i \in 1..Len(inside) |-> inside[i].name]

(***************************************************************************)
(* The datasets and their archives.                                        *)
(***************************************************************************)
\* POSSIBLE_FOLDERS as imported from SimUGANSpeech.data.librispeechdata: two
\* of the dataset names
POSSIBLE_FOLDERS == <<"dev-clean", "test-clean">>

\* The lists __main__ can build: the names of POSSIBLE_FOLDERS that were
\* asked for, in its order.
FolderNameLists ==
    {<<>>, <<POSSIBLE_FOLDERS[1]>>, <<POSSIBLE_FOLDERS[2]>>, POSSIBLE_FOLDERS}

\* The members of <fname>.tar.gz in archive order, as the module's docstring
\* lays the corpus out below <corpus root>.
ArchiveMembers(fname) ==
    LET top == path_join("LibriSpeech", fname)
        reader == path_join(top, "19")
        chapter == path_join(reader, "198")
    IN  <<Node("LibriSpeech", fname, "dir", <<>>),
          Node(top, "19", "dir", <<>>),
          Node(reader, "198", "dir", <<>>),
          Node(chapter, "19-198.trans.txt", "file", <<"19-198-0001 HELLO WORLD">>),
          Node(chapter, "19-198-0001.flac", "file", <<>>)>>

(***************************************************************************)
(* _maybe_download_and_extract                                             *)
(***************************************************************************)
\* where extractall puts the archive: os.path.join(folder_dir, '..'), which
\* the file system resolves to the directory above folder_dir
ExtractRootMutant(folder_dir) == folder_dir

ExtractRoot(folder_dir) == dirname(folder_dir)

\* tarfile.extractall: the first k members written below root
RECURSIVE ExtractAll(_, _, _, _)
ExtractAll(nodes, root, members, k) ==
    IF k = 0 THEN nodes
    ELSE LET done == ExtractAll(nodes, root, members, k - 1)
             m == members[k]
             p == path_join(root, m.path)
         IN  IF exists(done, p)
             THEN (IF m.kind = "dir" THEN done ELSE WriteFile(done, p, m.content))
             ELSE Append(done, Node(path_join(root, m.in), m.name, m.kind, m.content))

\* the test of the loop: is the folder of fname missing?
NeedsDownloadMutant(nodes, folder_dir, fname) ==
    ~exists(nodes, path_join(folder_dir, fname \o ".tar.gz"))

NeedsDownload(nodes, folder_dir, fname) ==
    ~exists(nodes, path_join(folder_dir, fname))

\* What can go wrong in one call of _maybe_download_and_extract: nothing, or
\* at the at-th name, one that is downloaded, the download breaks off
\* ("download") or extractall stops after `done` members ("extract").
NoFault == [at |-> 0, stage |-> "none", done |-> 0]

Faults(nodes, folder_dir, names) ==
    LET fetched == {k \in 1..Len(names) : NeedsDownload(nodes, folder_dir, names[k])}
    IN  {NoFault}
        \cup {[at |-> k, stage |-> "download", done |-> 0] : k \in fetched}
        \cup UNION {{[at |-> k, stage |-> "extract", done |-> j] :
                        j \in 0..(Len(ArchiveMembers(names[k])) - 1)} :
                    k \in fetched}

\* The loop from the i-th name on.  acc is [nodes, downloaded, extracted]:
\* the disk so far, the names whose urlretrieve and whose extractall
\* completed.
RECURSIVE DownloadLoop(_, _, _, _, _)
DownloadLoop(folder_dir, folder_names, i, fault, acc) ==
    IF i > Len(folder_names)
    THEN [state |-> "returned", error |-> "", at |-> 0] @@ acc
    ELSE
    LET fname == folder_names[i]
        tar_file_path == path_join(folder_dir, fname \o ".tar.gz")
        hit == fault.at = i
    IN  IF ~NeedsDownload(acc.nodes, folder_dir, fname)
        THEN DownloadLoop(folder_dir, folder_names, i + 1, fault, acc)
        ELSE IF hit /\ fault.stage = "download"
        THEN [state |-> "raised", error |-> "ContentTooShortError", at |-> i,
              nodes |-> WriteFile(acc.nodes, tar_file_path, "partial"),
              downloaded |-> acc.downloaded, extracted |-> acc.extracted]
        ELSE
        LET fetched == WriteFile(acc.nodes, tar_file_path, "complete")
            members == ArchiveMembers(fname)
        IN  IF hit /\ fault.stage = "extract"
            THEN [state |-> "raised", error |-> "OSError", at |-> i,
                  nodes |-> ExtractAll(fetched, ExtractRoot(folder_dir), members, fault.done),
                  downloaded |-> Append(acc.downloaded, fname),
                  extracted |-> acc.extracted]
            ELSE DownloadLoop(folder_dir, folder_names, i + 1, fault,
                   [nodes |-> ExtractAll(fetched, ExtractRoot(folder_dir), members,
                                         Len(members)),
                    downloaded |-> Append(acc.downloaded, fname),
                    extracted |-> Append(acc.extracted, fname)])

_maybe_download_and_extract(nodes, folder_dir, folder_names, fault) ==
    DownloadLoop(folder_dir, folder_names, 1, fault,
        [nodes |-> IF ~exists(nodes, folder_dir) THEN MakeDirs(nodes, folder_dir)
                   ELSE nodes,
         downloaded |-> <<>>,
         extracted |-> <<>>])

(***************************************************************************)
(* librispeech_initialize                                                  *)
(***************************************************************************)
\* what the loop does after a build that raised: the exception leaves the
\* function, the disk as it is
OnBuildRaisedMutant(nodes, master_file_path) ==
    WriteFile(nodes, master_file_path, EmptyIndex)

OnBuildRaised(nodes, master_file_path) == nodes

\* The loop from the i-th name on, nodes being the disk so far.
RECURSIVE InitializeLoop(_, _, _, _)
InitializeLoop(nodes, folder_dir, folder_names, i) ==
    IF i > Len(folder_names)
    THEN [state |-> "returned", error |-> "", at |-> 0, nodes |-> nodes]
    ELSE
    LET fname == folder_names[i]
        fpath == path_join(folder_dir, fname)
        master_file_path == path_join(fpath, "master.pkl")
    IN  IF ~exists(nodes, fpath)
        THEN [state |-> "raised", error |-> "ValueError", at |-> i, nodes |-> nodes]
        ELSE LET data == flacpath_transcription_id(nodes, fpath)
             IN  IF data.state = "raised"
                 THEN [state |-> "raised", error |-> data.error, at |-> i,
                       nodes |-> OnBuildRaised(nodes, master_file_path)]
                 ELSE InitializeLoop(WriteFile(nodes, master_file_path, data.value),
                                     folder_dir, folder_names, i + 1)

librispeech_initialize(nodes, folder_dir, folder_names) ==
    InitializeLoop(nodes, folder_dir, folder_names, 1)

(***************************************************************************)
(* The --clean branch of __main__                                          *)
(***************************************************************************)
\* the test before the listing: does the folder of fname exist?
CleanGuardMutant(nodes, fpath) == TRUE

CleanGuard(nodes, fpath) == exists(nodes, fpath)

\* os.remove of each path of pkl_files, from the k-th on
RECURSIVE RemoveAll(_, _, _)
RemoveAll(nodes, pkl_files, k) ==
    IF k > Len(pkl_files) THEN nodes
    ELSE RemoveAll(RemoveFile(nodes, pkl_files[k]), pkl_files, k + 1)

\* The loop from the i-th name on; removed lists the files deleted so far, as
\* the verbose run prints them.
RECURSIVE CleanLoop(_, _, _, _, _)
CleanLoop(nodes, save_dir, folder_names, i, removed) ==
    IF i > Len(folder_names)
    THEN [state |-> "returned", error |-> "", at |-> 0, nodes |-> nodes,
          removed |-> removed]
    ELSE
    LET fname == folder_names[i]
        fpath == path_join(save_dir, fname)
    IN  IF CleanGuard(nodes, fpath)
        THEN IF ~exists(nodes, fpath)
             THEN [state |-> "raised", error |-> "FileNotFoundError", at |-> i,
                   nodes |-> nodes, removed |-> removed]
             ELSE
             LET names == SelectSeq(listdir(nodes, fpath), LAMBDA f : endswith(f, ".pkl"))
                 pkl_files == [k \in 1..Len(names) |->
                                  path_join(path_join(save_dir, fname), names[k])]
             IN  CleanLoop(RemoveAll(nodes, pkl_files, 1), save_dir, folder_names, i + 1,
                           removed \o pkl_files)
        ELSE CleanLoop(nodes, save_dir, folder_names, i + 1, removed)

clean(nodes, save_dir, folder_names) ==
    CleanLoop(nodes, save_dir, folder_names, 1, <<>>)

(***************************************************************************)
(* Spec: the three stages of __main__ called on the disk, any number of    *)
(* times in any order.                                                     *)
(***************************************************************************)
NoCall == [op |-> "none"]

\* No code lists LIBRISPEECH_DIR itself, so the order of its entries is never
\* read: the disk is kept with, for each name of POSSIBLE_FOLDERS in turn, its
\* archive and its folder, after everything else; what is inside a folder
\* stays in the order it was created in.
OfDataset(n, fname) ==
    LET top == path_join(LIBRISPEECH_DIR, fname)
    IN  n.path = top \/ n.path = top \o ".tar.gz" \/ startswith(n.path, top \o "/")

RECURSIVE Arranged(_, _)
Arranged(nodes, k) ==
    IF k > Len(POSSIBLE_FOLDERS) THEN <<>>
    ELSE SelectSeq(nodes, LAMBDA n : n.kind = "file" /\ n.in = LIBRISPEECH_DIR
                                       /\ OfDataset(n, POSSIBLE_FOLDERS[k]))
         \o SelectSeq(nodes, LAMBDA n : ~(n.kind = "file" /\ n.in = LIBRISPEECH_DIR)
                                          /\ OfDataset(n, POSSIBLE_FOLDERS[k]))
         \o Arranged(nodes, k + 1)

Arrange(nodes) ==
    SelectSeq(nodes, LAMBDA n : \A k \in 1..Len(POSSIBLE_FOLDERS) :
                                    ~OfDataset(n, POSSIBLE_FOLDERS[k]))
    \o Arranged(nodes, 1)

\* the names of folder_names whose folder is missing on the disk
Missing(nodes, folder_names) ==
    SelectSeq(folder_names, LAMBDA f : ~exists(nodes, path_join(LIBRISPEECH_DIR, f)))

\* what is kept of the call before, when it was a call of
\* _maybe_download_and_extract with the same names
Earlier(folder_names) ==
    IF last.op = "fetch" /\ last.names = folder_names
    THEN [op |-> "fetch", state |-> last.state, missing |-> last.missing,
          downloaded |-> last.downloaded, extracted |-> last.extracted]
    ELSE NoCall

\* A dataset folder somebody put on the disk: a chapter with its transcript,
\* or a chapter that holds `notestxt` and no transcript; an index of an
\* earlier run and, with the transcript, ids.pkl beside it.
OldIndex == [paths |-> <<"old.flac">>, transcriptions |-> <<"OLD">>, ids |-> <<"0">>]

UserFolder(fname, kind) ==
    LET top == path_join(LIBRISPEECH_DIR, fname)
        reader == path_join(top, "19")
        chapter == path_join(reader, "198")
    IN  <<Node(LIBRISPEECH_DIR, fname, "dir", <<>>),
          Node(top, "19", "dir", <<>>),
          Node(reader, "198", "dir", <<>>)>>
        \o (IF kind = "transcript"
            THEN <<Node(chapter, "19-198.trans.txt", "file", <<"19-198-0001 HI">>)>>
            ELSE <<Node(chapter, "notestxt", "file", <<"draft NOTE">>)>>)
        \o <<Node(chapter, "19-198-0001.flac", "file", <<>>),
              Node(top, "master.pkl", "file", OldIndex)>>
        \o (IF kind = "transcript"
            THEN <<Node(top, "ids.pkl", "file", <<>>)>> ELSE <<>>)

FolderKinds == {"absent", "transcript", "notes"}

Init ==
    /\ \/ disk = <<>>
       \/ \E kinds \in [1..Len(POSSIBLE_FOLDERS) -> FolderKinds] :
             disk = <<DirNode(LIBRISPEECH_DIR)>>
                    \o (IF kinds[1] = "absent" THEN <<>>
                        ELSE UserFolder(POSSIBLE_FOLDERS[1], kinds[1]))
                    \o (IF kinds[2] = "absent" THEN <<>>
                        ELSE UserFolder(POSSIBLE_FOLDERS[2], kinds[2]))
    /\ last = NoCall
    /\ txt_file = Unused /\ parsed = Unused
    /\ folder = Unused /\ voice_txt_dict = Unused /\ index = Unused

MaybeDownloadAndExtract ==
    \E folder_names \in FolderNameLists :
    \E fault \in Faults(disk, LIBRISPEECH_DIR, folder_names) :
        LET r == _maybe_download_and_extract(disk, LIBRISPEECH_DIR, folder_names, fault)
        IN  /\ disk' = Arrange(r.nodes)
            /\ last' = [op |-> "fetch", names |-> folder_names, state |-> r.state,
                        error |-> r.error, at |-> r.at,
                        missing |-> Missing(disk, folder_names),
                        downloaded |-> r.downloaded, extracted |-> r.extracted,
                        earlier |-> Earlier(folder_names)]
            /\ UNCHANGED <<parseVars, buildVars>>

LibrispeechInitialize ==
    \E folder_names \in FolderNameLists :
        LET r == librispeech_initialize(disk, LIBRISPEECH_DIR, folder_names)
        IN  /\ disk' = Arrange(r.nodes)
            /\ last' = [op |-> "initialize", names |-> folder_names, state |-> r.state,
                        error |-> r.error, at |-> r.at]
            /\ UNCHANGED <<parseVars, buildVars>>

Clean ==
    \E folder_names \in FolderNameLists :
        LET r == clean(disk, LIBRISPEECH_DIR, folder_names)
        IN  /\ disk' = Arrange(r.nodes)
            /\ last' = [op |-> "clean", names |-> folder_names, state |-> r.state,
                        error |-> r.error, at |-> r.at, removed |-> r.removed]
            /\ UNCHANGED <<parseVars, buildVars>>

Next == MaybeDownloadAndExtract \/ LibrispeechInitialize \/ Clean

Spec == Init /\ [][Next]_vars

(***************************************************************************)
(* What the claims speak of, stated apart from the loops above.            *)
(***************************************************************************)
\* str.split(): the whitespace-separated tokens of s from position i on, tok
\* being the token at hand
RECURSIVE TokensFrom(_, _, _)
TokensFrom(s, i, tok) ==
    IF i > Len(s) THEN (IF tok = "" THEN <<>> ELSE <<tok>>)
    ELSE IF IsSpace(CharAt(s, i))
         THEN (IF tok = "" THEN <<>> ELSE <<tok>>) \o TokensFrom(s, i + 1, "")
         ELSE TokensFrom(s, i + 1, tok \o CharAt(s, i))

Tokens(s) == TokensFrom(s, 1, "")

\* the leaf directories at or under top, in the order the traversal finds them
LeafEntries(nodes, top) ==
    SelectSeq(os_walk(nodes, top), LAMBDA e : Len(e.sub_directories) = 0)

\* the sum of f[i] over the i in S
RECURSIVE Sum(_, _)
Sum(f, S) ==
    IF S = {} THEN 0
    ELSE LET i == CHOOSE j \in S : TRUE IN f[i] + Sum(f, S \ {i})

(***************************************************************************)
(* C1.  Whenever flacpath_transcription_id returns, the three sequences of *)
(* the index have the same length.                                         *)
(***************************************************************************)
C1_ParallelLengths ==
    index.state = "returned" =>
        /\ Len(index.value.paths) = Len(index.value.transcriptions)
        /\ Len(index.value.paths) = Len(index.value.ids)

\* an index of three or more utterances built from a folder with several
\* groups, one of whose transcript files is empty
C1_Witness ==
    /\ index.state = "returned"
    /\ Len(index.value.ids) >= 3
    /\ Len(voice_txt_dict.value) >= 2
    /\ \E j \in 1..Len(voice_txt_dict.value) :
          \E k \in 1..Len(voice_txt_dict.value[j].value) :
             readlines(folder.nodes, voice_txt_dict.value[j].value[k]) = <<>>

(***************************************************************************)
(* C3.  The index lists the utterances group by group in the order the     *)
(* groups were first discovered, within a group transcript file by         *)
(* transcript file in discovery order, and within a file line by line:     *)
(* the lines of the i-th discovered file fill one block of the index, and  *)
(* the block starts after the blocks of the files of earlier discovered    *)
(* groups and of the earlier files of its own group.                       *)
(***************************************************************************)
\* the transcript file each leaf contributes, its group key and its lines, in
\* discovery order
Discovered(nodes, top) ==
    LET leaves == LeafEntries(nodes, top)
    IN  [i \in 1..Len(leaves) |->
            LET txt == TxtFiles(leaves[i])[1]
            IN  [key   |-> basename(leaves[i].dir_name),
                 txt   |-> txt,
                 lines |-> readlines(nodes, txt)]]

\* the discovery at which a group key first appears
FirstSeen(disc, key) ==
    CHOOSE i \in 1..Len(disc) :
        /\ disc[i].key = key
        /\ \A j \in 1..(i - 1) : disc[j].key # key

\* file j comes before file i in the index
Before(disc, j, i) ==
    \/ FirstSeen(disc, disc[j].key) < FirstSeen(disc, disc[i].key)
    \/ disc[j].key = disc[i].key /\ j < i

\* where the block of file i starts
Offset(disc, i) ==
    Sum([j \in 1..Len(disc) |-> Len(disc[j].lines)],
        {j \in 1..Len(disc) : Before(disc, j, i)})

OrderPreserved(disc, idx) ==
    /\ Len(idx.ids) = Sum([j \in 1..Len(disc) |-> Len(disc[j].lines)], 1..Len(disc))
    /\ \A i \in 1..Len(disc) :
          LET r == _transcriptions_and_flac(
                       [path |-> disc[i].txt, lines |-> disc[i].lines]).value
              off == Offset(disc, i)
          IN  \A k \in 1..Len(disc[i].lines) :
                  /\ idx.ids[off + k] = disc[i].key
                  /\ idx.paths[off + k] = r.flac_files[k]
                  /\ idx.transcriptions[off + k] = r.transcriptions[k]

C3_OrderPreserved ==
    index.state = "returned" =>
        OrderPreserved(Discovered(folder.nodes, folder.path), index.value)

\* three leaves with utterances, the first and the third of one group and
\* the second of another
C3_Witness ==
    /\ index.state = "returned"
    /\ LET disc == Discovered(folder.nodes, folder.path)
       IN  \E i, j, k \in 1..Len(disc) :
              /\ i < j /\ j < k
              /\ disc[i].key = disc[k].key
              /\ disc[i].key # disc[j].key
              /\ Len(disc[i].lines) >= 2 /\ Len(disc[j].lines) >= 1
              /\ Len(disc[k].lines) >= 1

(***************************************************************************)
(* C9.  The mapping holds one path per leaf directory, filed under the     *)
(* directory's basename: the first file of its listing whose name ends in  *)
(* '.txt'; nothing else contributes.                                       *)
(***************************************************************************)
DotTxtFiles(entry) ==
    SelectSeq([i \in 1..Len(entry.file_names) |->
                  path_join(entry.dir_name, entry.file_names[i])],
              LAMBDA x : endswith(x, ".txt"))

FirstDotTxtPerLeaf(leaves, d) ==
    /\ \A i \in 1..Len(leaves) : DotTxtFiles(leaves[i]) # <<>>
    /\ {d[j].key : j \in 1..Len(d)} = {basename(leaves[i].dir_name) : i \in 1..Len(leaves)}
    /\ \A j \in 1..Len(d) :
          LET mine == SelectSeq(leaves, LAMBDA e : basename(e.dir_name) = d[j].key)
          IN  d[j].value = [i \in 1..Len(mine) |-> DotTxtFiles(mine[i])[1]]

C9_FirstDotTxtPerLeaf ==
    voice_txt_dict.state = "returned" =>
        FirstDotTxtPerLeaf(LeafEntries(folder.nodes, folder.path), voice_txt_dict.value)

(***************************************************************************)
(* C5.  _transcriptions_and_flac returns one entry per non-empty line, in  *)
(* file order: the transcription is the line's whitespace-separated tokens *)
(* after the first joined by single spaces, the audio path the parent      *)
(* directory joined with the first token and '.flac'.  Files with a        *)
(* non-empty line that holds no token are left to C6.                      *)
(***************************************************************************)
NonEmptyLines(lines) == SelectSeq(lines, LAMBDA l : l # "")

C5_OneEntryPerNonEmptyLine ==
    LET kept == NonEmptyLines(txt_file.lines)
    IN  (parsed.state = "returned" /\ \A i \in 1..Len(kept) : Tokens(kept[i]) # <<>>) =>
            /\ Len(parsed.value.transcriptions) = Len(kept)
            /\ Len(parsed.value.flac_files) = Len(kept)
            /\ \A i \in 1..Len(kept) :
                  /\ parsed.value.transcriptions[i] = join(" ", Tail(Tokens(kept[i])))
                  /\ parsed.value.flac_files[i] =
                        path_join(dirname(txt_file.path), Tokens(kept[i])[1] \o ".flac")

(***************************************************************************)
(* C6.  Parsing a file with a line that holds no whitespace-separated      *)
(* token fails: it does not return.                                        *)
(***************************************************************************)
C6_TokenlessLineFails ==
    (\E i \in 1..Len(txt_file.lines) : Tokens(txt_file.lines[i]) = <<>>) =>
        parsed.state # "returned"

(***************************************************************************)
(* What the claims about the disk speak of.                                *)
(***************************************************************************)
FolderPath(fname) == path_join(LIBRISPEECH_DIR, fname)

\* the master file of a dataset as the disk holds it: no node, or one
MasterFile(nodes, fname) ==
    SelectSeq(nodes, LAMBDA n : n.path = path_join(FolderPath(fname), "master.pkl"))

\* the folder of a dataset and everything below it
FolderOf(nodes, fname) ==
    SelectSeq(nodes, LAMBDA n : n.path = FolderPath(fname)
                                  \/ startswith(n.path, FolderPath(fname) \o "/"))

\* every member of the dataset's archive is on the disk as the archive has it
Complete(nodes, fname) ==
    LET members == ArchiveMembers(fname)
    IN  \A k \in 1..Len(members) :
            \E i \in 1..Len(nodes) :
                nodes[i] = Node(path_join(dirname(LIBRISPEECH_DIR), members[k].in),
                                members[k].name, members[k].kind, members[k].content)

InSeq(x, q) == \E i \in 1..Len(q) : q[i] = x

\* some leaf directory at or under top holds no file ending in '.txt'
LeafWithoutDotTxt(nodes, top) ==
    LET leaves == LeafEntries(nodes, top)
    IN  \E i \in 1..Len(leaves) : DotTxtFiles(leaves[i]) = <<>>

(***************************************************************************)
(* C2.  A call of _maybe_download_and_extract right after one with the     *)
(* same names that returned downloads nothing, extracts nothing and leaves *)
(* the disk as it is; the call before downloaded and extracted each name   *)
(* whose folder was missing, once.                                         *)
(***************************************************************************)
C2_SecondFetchNoOp ==
    [][(/\ last.op = "fetch" /\ last.state = "returned"
        /\ last'.op = "fetch" /\ last'.names = last.names)
       => /\ last.downloaded = last.missing
          /\ last.extracted = last.missing
          /\ last'.state = "returned"
          /\ last'.downloaded = <<>>
          /\ last'.extracted = <<>>
          /\ disk' = disk]_vars

\* a call that downloaded and extracted, then a second one with the same names
C2_Witness ==
    /\ last.op = "fetch" /\ last.state = "returned"
    /\ last.earlier.op = "fetch" /\ last.earlier.state = "returned"
    /\ last.earlier.extracted # <<>>
    /\ last.downloaded = <<>>
    /\ \A i \in 1..Len(last.names) : Complete(disk, last.names[i])

(***************************************************************************)
(* C4.  When librispeech_initialize comes to a dataset with a leaf         *)
(* directory that holds no '.txt' file, it fails there and the dataset's   *)
(* master file is as it was before.                                        *)
(***************************************************************************)
C4_LeafWithoutTranscriptFails ==
    [][\A j \in 1..Len(last'.names) :
          (/\ last'.op = "initialize"
           /\ last'.state = "returned" \/ last'.at >= j
           /\ exists(disk, FolderPath(last'.names[j]))
           /\ LeafWithoutDotTxt(disk, FolderPath(last'.names[j])))
          => /\ last'.state = "raised"
             /\ last'.at = j
             /\ MasterFile(disk', last'.names[j]) = MasterFile(disk, last'.names[j])]_vars

(***************************************************************************)
(* C7 as amended.  The --clean branch deletes, for each dataset whose      *)
(* folder exists, every file directly inside the folder whose name ends in *)
(* '.pkl' -- master.pkl and any other -- and changes nothing else; with no *)
(* such file, or no folder, it changes nothing; it does not raise.         *)
(***************************************************************************)
IsSave(n, names) ==
    /\ n.kind = "file"
    /\ endswith(n.name, ".pkl")
    /\ \E i \in 1..Len(names) : n.in = FolderPath(names[i])

C8_RerunFetchesMissingFolders ==
    [][(/\ last.op = "fetch" /\ last.state = "raised"
        /\ last'.op = "fetch" /\ last'.names = last.names
        /\ last'.state = "returned")
       => \A j \in 1..Len(last'.names) :
             LET fname == last'.names[j]
             IN  IF exists(disk, FolderPath(fname))
                 THEN /\ FolderOf(disk', fname) = FolderOf(disk, fname)
                      /\ ~InSeq(fname, last'.downloaded)
                      /\ ~InSeq(fname, last'.extracted)
                 ELSE /\ Complete(disk', fname)
                      /\ InSeq(fname, last'.downloaded)
                      /\ InSeq(fname, last'.extracted)]_vars

\* a rerun after an extraction that broke off inside one dataset and a
\* download that broke off for another: the first stays partial, the second
\* is fetched
C8_Witness ==
    /\ last.op = "fetch" /\ last.state = "returned"
    /\ last.earlier.op = "fetch" /\ last.earlier.state = "raised"
    /\ \E i \in 1..Len(last.names) :
          /\ exists(disk, FolderPath(last.names[i]))
          /\ ~Complete(disk, last.names[i])
          /\ ~InSeq(last.names[i], last.downloaded)
    /\ last.downloaded # <<>>

(***************************************************************************)
(* C8 as stated.  A call of _maybe_download_and_extract that returns,      *)
(* right after one with the same names that raised, leaves the complete    *)
(* tree of every dataset the failed call had to fetch, and does not        *)
(* download again an archive the failed call fetched completely.           *)
(***************************************************************************)
C8_RerunConverges ==
    [][(/\ last.op = "fetch" /\ last.state = "raised"
        /\ last'.op = "fetch" /\ last'.names = last.names
        /\ last'.state = "returned")
       => /\ \A j \in 1..Len(last.missing) : Complete(disk', last.missing[j])
          /\ \A j \in 1..Len(last.downloaded) :
                ~InSeq(last.downloaded[j], last'.downloaded)]_vars

(***************************************************************************)
(* C10.  When librispeech_initialize raises at the k-th dataset, the       *)
(* master file of each dataset before the k-th holds the index built from  *)
(* its folder, and the master file of the k-th and of each later dataset   *)
(* is as it was before the call: not created, not changed.                 *)
(***************************************************************************)
C10_FailureAtK ==
    [][(last'.op = "initialize" /\ last'.state = "raised")
       => \A j \in 1..Len(last'.names) :
             LET fname == last'.names[j]
             IN  IF j < last'.at
                 THEN MasterFile(disk', fname) =
                        <<Node(FolderPath(fname), "master.pkl", "file",
                               flacpath_transcription_id(disk, FolderPath(fname)).value)>>
                 ELSE MasterFile(disk', fname) = MasterFile(disk, fname)]_vars

\* the call raised at the second dataset after it wrote a new index for the
\* first; the second has no master file or the one it had
C10_Witness ==
    /\ last.op = "initialize" /\ last.state = "raised" /\ last.at = 2
    /\ MasterFile(disk, last.names[1]) # <<>>
    /\ MasterFile(disk, last.names[1])[1].content # OldIndex
    /\ MasterFile(disk, last.names[1])[1].content =
          flacpath_transcription_id(disk, FolderPath(last.names[1])).value
    /\ last.error = "IndexError"
====
